---- MODULE Spec2Model ----
(***************************************************************************)
(* A model of typhon's Response (response.go): the body stream, the        *)
(* running content length, the Content-Type header and the terminal error, *)
(* under the operations Write, BodyBytes, Encode, EncodeAsProtobuf and     *)
(* Decode, and the field assignments a caller can make.                    *)
(***************************************************************************)
EXTENDS Integers, Sequences, FiniteSets, TLC

\* ---------------------------------------------------------------- bounds
\* Longest byte slice passed to one Write / produced by one codec call.
MaxWrite == 2
\* Most bytes a body stream holds (caps the growth of the body).
MaxBody == 4
\* The chunking threshold, scaled down (the program uses megabytes).
chunkThreshold == 3

Byte == {0, 1}

RECURSIVE SeqsUpTo(_)
SeqsUpTo(n) ==
    IF n = 0 THEN {<<>>}
    ELSE LET S == SeqsUpTo(n - 1)
         IN  S \cup {Append(s, b) : s \in {t \in S : Len(t) = n - 1}, b \in Byte}

\* The byte slices given to Write and produced by the codecs.
\* (those in which no byte repeats its predecessor: enough to tell every
\* position and every order apart).
Chunks == {s \in SeqsUpTo(MaxWrite) : \A i \in 1..(Len(s) - 1) : s[i] # s[i + 1]}

Prefix(s, k) == SubSeq(s, 1, k)
Suffix(s, k) == SubSeq(s, k + 1, Len(s))

\* ---------------------------------------------------------------- errors
\* An error value: its kind, and the kind of the error it wraps.
NilErr == [kind |-> "nil", cause |-> "nil"]
Err(k) == [kind |-> k, cause |-> "nil"]

\* The kinds that are already *terrors.Error values.
TerrorsKinds == {"internal_service", "internal_service.invalid_type",
                 "internal_service.downstream", "bad_response"}

\* terrors.Wrap(err, nil): nil stays nil, a terror is returned as it is,
\* anything else becomes an internal_service terror caused by err.
Wrap(e) ==
    IF e = NilErr THEN NilErr
    ELSE IF e.kind \in TerrorsKinds THEN e
    ELSE [kind |-> "internal_service", cause |-> e.kind]

\* terrors.WrapWithCode(err, nil, terrors.ErrBadResponse)
WrapWithCode(e) ==
    IF e = NilErr THEN NilErr
    ELSE IF e.kind \in TerrorsKinds THEN e
    ELSE [kind |-> "bad_response", cause |-> e.kind]

\* terrors.NewInternalWithCause(r.Error, "Downstream request error", nil, "downstream")
NewInternalWithCause(e) == [kind |-> "internal_service.downstream", cause |-> e.kind]

\* ---------------------------------------------------------------- streams
\* A body stream.  kind: "nil" (no body), "buf" (*bufCloser), "nop" (a
\* reader behind ioutil.NopCloser), "rc" (a foreign io.ReadCloser that is
\* not a writer), "rwc" (a foreign io.ReadCloser that is also an io.Writer,
\* such as a connection: what is written to it goes to its peer and is not
\* read back from it).
\* data: the bytes not read yet.  closes: calls of Close so far that changed
\* the stream (capped).  bad: its reads fail ("nop", "rc") or its writes fail
\* ("rwc").
NilBody == [kind |-> "nil", data |-> <<>>, closes |-> 0, bad |-> FALSE]

\* &bufCloser{} : a new, empty buffer
NewBuf == [kind |-> "buf", data |-> <<>>, closes |-> 0, bad |-> FALSE]

IsWriter(s) == s.kind \in {"buf", "rwc"}

\* The body is a stream that came from outside: not nil and not a *bufCloser.
IsForeign(s) == s.kind \in {"nop", "rc", "rwc"}

Min(a, b) == IF a < b THEN a ELSE b
Max(a, b) == IF a > b THEN a ELSE b

\* rc.Close(): bufCloser.Close is a no-op that leaves the buffer as it is
Close(s) == IF s.kind = "buf" THEN s ELSE [s EXCEPT !.closes = Min(@ + 1, 2)]

\* ioutil.ReadAll(s) / io.Copy(buf, s): the possible outcomes, each the bytes
\* delivered, the error, and the stream afterwards.
ReadAll(s) ==
    LET full == [bytes |-> s.data, err |-> NilErr, s |-> [s EXCEPT !.data = <<>>]]
        fails == {[bytes |-> Prefix(s.data, k), err |-> Err("io"),
                   s |-> [s EXCEPT !.data = Suffix(s.data, k)]] : k \in 0..Len(s.data)}
        closedErr == [bytes |-> <<>>, err |-> Err("io"), s |-> s]
    IN  CASE s.kind = "buf" -> {full}
          [] s.kind = "nop" -> IF s.bad THEN fails ELSE {full}
          [] s.kind = "rc"  -> IF s.closes > 0 THEN {closedErr, full}
                               ELSE IF s.bad THEN fails ELSE {full}
          [] s.kind = "rwc" -> IF s.closes > 0 THEN {closedErr, full} ELSE {full}
          [] OTHER -> {}

\* rc.Write(b) on a stream that is an io.Writer: the possible outcomes, each
\* the count and the error returned and the stream afterwards.  A bufCloser
\* appends and never fails; a failing or closed foreign writer takes fewer
\* than len(b) bytes and returns an error.
StreamWrite(s, b) ==
    IF s.kind = "buf"
    THEN {[n |-> Len(b), err |-> NilErr, s |-> [s EXCEPT !.data = @ \o b]]}
    ELSE IF s.bad \/ s.closes > 0
    THEN {[n |-> k, err |-> Err("io"), s |-> s] : k \in 0..Max(Len(b) - 1, 0)}
    ELSE {[n |-> Len(b), err |-> NilErr, s |-> s]}

\* ---------------------------------------------------------------- state
VARIABLES
    resp,           \* r.Response # nil
    body,           \* r.Body
    contentLength,  \* r.ContentLength
    contentType,    \* r.Header.Get("Content-Type")
    error,          \* r.Error
    written,        \* the bytes passed to Write since construction, in order,
                    \* kept while only Writes and then BodyBytes were called
    onlyWrites,     \* nothing but successful Writes happened since construction
    noConsume,      \* nothing but Write, Encode, EncodeAsProtobuf and
                    \* BodyBytes(false) was called since construction
    ret             \* the last call and what it returned

vars == <<resp, body, contentLength, contentType, error,
          written, onlyWrites, noConsume, ret>>

\* What a call returned; fields a call does not return keep their zero value.
\* swapped: the call made r.Body refer to another stream object.  For Encode
\* and EncodeAsProtobuf, which return nothing, err is the failure the call
\* ran into, dec the codec it used and bytes what the codec produced.
Ret(op) == [op |-> op, n |-> 0, err |-> NilErr, bytes |-> <<>>, panic |-> FALSE,
            dec |-> "", swapped |-> FALSE]

\* The owning request as far as response.go reads it: whether r.Request is
\* set, whether its Accept header contains "application/protobuf", and what
\* Context.Value(WrapDownstreamErrors{}) holds.  r.Request is an exported
\* field that callers assign and whose context they replace, so every call
\* reads the request of the moment: it is an input of Encode and Decode.
NoRequest == [present |-> FALSE, accept |-> FALSE, ctx |-> "nilctx"]

Requests ==
    {NoRequest}
    \cup [present : {TRUE}, accept : BOOLEAN,
          ctx : {"nilctx", "absent", "nonstring", "empty", "nonempty"}]

\* newHTTPResponse(req, statusCode) as installed by NewResponseWithCode
NewResponseWithCode ==
    /\ resp = TRUE
    /\ body = NewBuf
    /\ contentLength = 0
    /\ contentType = ""
    /\ error = NilErr

\* Response{} and Response{Error: err}: no http.Response underneath
ZeroResponse ==
    /\ resp = FALSE
    /\ body = NilBody
    /\ contentLength = 0
    /\ contentType = ""
    /\ error \in {NilErr, Err("caller")}

Init ==
    /\ NewResponseWithCode \/ ZeroResponse
    /\ written = <<>>
    /\ onlyWrites = TRUE
    /\ noConsume = TRUE
    /\ ret = Ret("new")

\* ---------------------------------------------------------------- Write
\* The fields of the Response that Write reads and assigns, and what a call
\* did to the body: swapped says that it made r.Body refer to another stream,
\* dropped is the stream it took out of r.Body, as the call left it.
Fields == [resp |-> resp, body |-> body, contentLength |-> contentLength,
           contentType |-> contentType, swapped |-> FALSE, dropped |-> NilBody]

\* A shell construction that misses the check for nil.
EnsureResponse_Always(R) ==
    [R EXCEPT !.resp = TRUE, !.body = NewBuf, !.contentLength = 0,
              !.contentType = "", !.swapped = TRUE]

\* r.Response = newHTTPResponse(Request{}, http.StatusOK) when r.Response is nil
EnsureResponse(R) ==
    IF R.resp THEN R
    ELSE [R EXCEPT !.resp = TRUE, !.body = NewBuf, !.contentLength = 0,
                   !.contentType = "", !.swapped = TRUE]

\* An accounting that misses the check of a known length.
Account_NoKnownCheck(cl, n) ==
    IF cl + n >= chunkThreshold THEN -1 ELSE cl + n

\* An accounting that chunks only above the threshold.
Account_Above(cl, n) ==
    IF cl >= 0
    THEN IF cl + n > chunkThreshold THEN -1 ELSE cl + n
    ELSE cl

\* The content length after a write of n bytes.
Account(cl, n) ==
    IF cl >= 0
    THEN IF cl + n >= chunkThreshold THEN -1 ELSE cl + n
    ELSE cl

\* A drain that loses what it read.
Drain_Discards(s) ==
    IF s.kind = "nil" THEN {[bytes |-> <<>>, err |-> NilErr, s |-> s]}
    ELSE {IF o.err = NilErr THEN [o EXCEPT !.bytes = <<>>, !.s = Close(@)] ELSE o
          : o \in ReadAll(s)}

\* A drain that leaves the stream open.
Drain_NoClose(s) ==
    IF s.kind = "nil" THEN {[bytes |-> <<>>, err |-> NilErr, s |-> s]}
    ELSE ReadAll(s)

\* A drain that closes the stream when the copy failed, too.
Drain_ClosesAlways(s) ==
    IF s.kind = "nil" THEN {[bytes |-> <<>>, err |-> NilErr, s |-> s]}
    ELSE {[o EXCEPT !.s = Close(@)] : o \in ReadAll(s)}

\* io.Copy(buf, rc) and rc.Close() when rc is not nil: the bytes that reach
\* the new buffer, the error, and rc afterwards (closed once the copy is
\* done, left as the copy left it when the copy failed).
Drain(s) ==
    IF s.kind = "nil" THEN {[bytes |-> <<>>, err |-> NilErr, s |-> s]}
    ELSE {IF o.err = NilErr THEN [o EXCEPT !.s = Close(@)] ELSE o : o \in ReadAll(s)}

\* Response.Write(b): the possible outcomes, each the count and the error
\* returned and the fields afterwards.
Write(R0, b) ==
    LET R == EnsureResponse(R0)
    IN  IF IsWriter(R.body)
        THEN {[n |-> o.n, err |-> o.err,
               R |-> IF o.err # NilErr THEN [R EXCEPT !.body = o.s]
                     ELSE [R EXCEPT !.body = o.s,
                                    !.contentLength = Account(@, o.n)]]
              : o \in StreamWrite(R.body, b)}
        ELSE LET buf == NewBuf
                 drained == Drain(R.body)
             IN  {IF o.err # NilErr
                  THEN [n |-> 0, err |-> o.err, R |-> [R EXCEPT !.body = o.s]]
                  ELSE [n |-> Len(b), err |-> NilErr,
                        R |-> [R EXCEPT !.body = [buf EXCEPT !.data = o.bytes \o b],
                                        !.swapped = TRUE,
                                        !.dropped = o.s,
                                        !.contentLength = Account(@, Len(b))]]
                  : o \in drained}

\* The caller calls r.Write(b).
WriteCall ==
    \E b \in Chunks : \E o \in Write(Fields, b) :
        /\ Len(o.R.body.data) <= MaxBody
        /\ resp' = o.R.resp
        /\ body' = o.R.body
        /\ contentLength' = o.R.contentLength
        /\ contentType' = o.R.contentType
        /\ onlyWrites' = (onlyWrites /\ o.err = NilErr)
        /\ noConsume' = noConsume
        /\ written' = IF onlyWrites' THEN written \o b ELSE <<>>
        /\ ret' = [Ret("Write") EXCEPT !.n = o.n, !.err = o.err,
                                       !.swapped = o.R.swapped]
        /\ UNCHANGED error

\* ---------------------------------------------------------------- BodyBytes
\* A consuming read that leaves the bytes in the stream.
ConsumeAll_Peek(s) == {[bytes |-> s.data, err |-> NilErr, s |-> Close(s)]}

\* defer r.Body.Close(); ioutil.ReadAll(r.Body): the bytes and the error
\* returned, and the body afterwards.
ConsumeAll(s) == {[o EXCEPT !.s = Close(o.s)] : o \in ReadAll(s)}

\* A conversion that reads the stream without feeding the buffer.
TeeAll_NoCopy(s) ==
    {[bytes |-> o.bytes, err |-> o.err, s |-> NewBuf, old |-> Close(o.s)]
     : o \in ReadAll(s)}

\* ioutil.ReadAll(io.TeeReader(rc, buf)) with r.Body = buf and the deferred
\* rc.Close(): the bytes and the error returned, the buffer that is the body
\* afterwards, and rc afterwards.
TeeAll(s) ==
    {[bytes |-> o.bytes, err |-> o.err, s |-> [NewBuf EXCEPT !.data = o.bytes],
      old |-> Close(o.s)]
     : o \in ReadAll(s)}

\* Response.BodyBytes(consume): the possible outcomes, each the bytes and the
\* error returned, whether the call panicked, and the fields afterwards.
BodyBytes(R, consume) ==
    LET out(b, e, p, R1) == [bytes |-> b, err |-> e, panic |-> p, R |-> R1]
    IN  IF ~R.resp \/ (consume /\ R.body.kind = "nil")
        THEN {out(<<>>, NilErr, TRUE, R)}
        ELSE IF consume
        THEN {out(o.bytes, o.err, FALSE, [R EXCEPT !.body = o.s])
              : o \in ConsumeAll(R.body)}
        ELSE IF R.body.kind = "buf"
        THEN {out(R.body.data, NilErr, FALSE, R)}
        ELSE IF R.body.kind = "nil"
        THEN {out(<<>>, NilErr, TRUE, [R EXCEPT !.body = NewBuf, !.swapped = TRUE])}
        ELSE {out(o.bytes, o.err, FALSE,
                  [R EXCEPT !.body = o.s, !.swapped = TRUE, !.dropped = o.old])
              : o \in TeeAll(R.body)}

\* The caller calls r.BodyBytes(consume).
BodyBytesCall ==
    \E consume \in BOOLEAN : \E o \in BodyBytes(Fields, consume) :
        /\ body' = o.R.body
        /\ onlyWrites' = FALSE
        /\ noConsume' = (noConsume /\ ~consume)
        /\ written' = written
        /\ ret' = [Ret(IF consume THEN "BodyBytes(true)" ELSE "BodyBytes(false)")
                   EXCEPT !.bytes = o.bytes, !.err = o.err, !.panic = o.panic,
                          !.swapped = o.R.swapped]
        /\ UNCHANGED <<resp, contentLength, contentType, error>>

\* ---------------------------------------------------------------- Decode
\* The Content-Type values Decode hands to the protobuf decoder.
\* A dispatch that knows the older binary content types only.
ProtoTypes_Legacy == {"application/octet-stream", "application/x-google-protobuf"}

ProtoTypes == {"application/octet-stream", "application/x-google-protobuf",
               "application/protobuf"}

ContentTypes == ProtoTypes \cup {"", "application/json"}

\* A policy check that takes any string, the empty one too.
WrapsDownstream_AnyString(req) ==
    req.present /\ req.ctx # "nilctx" /\ req.ctx \in {"empty", "nonempty"}

\* r.Request.Context.Value(WrapDownstreamErrors{}) is a non-empty string
WrapsDownstream(req) == req.present /\ req.ctx # "nilctx" /\ req.ctx = "nonempty"

\* An outcome of Decode: the returned error, the decoder used, the bytes
\* handed to it, whether the call panicked, and the error field and the
\* fields afterwards.
DecodeOut(rerr, dec, b, p, e1, R1) ==
    [err |-> rerr, dec |-> dec, bytes |-> b, panic |-> p, error |-> e1, R |-> R1]

\* Decode when r.Error is set: the body is left alone.
DecodeError(R, e, req) ==
    {DecodeOut(IF WrapsDownstream(req) THEN NewInternalWithCause(e) ELSE e,
               "", <<>>, FALSE, e, R)}

\* Decode when r.Error is nil: isProto says whether v is a proto.Message,
\* codecErr the error the decoder returns for the bytes it is handed
\* (json.Unmarshal always rejects an empty input).
DecodeBody(R, e, isProto, codecErr) ==
    LET noBody == Err("internal_service")
        invalid == Err("internal_service.invalid_type")
    IN  IF ~R.resp
        THEN {DecodeOut(noBody, "", <<>>, FALSE, noBody, R)}
        ELSE {IF o.panic THEN DecodeOut(NilErr, "", <<>>, TRUE, e, o.R)
              ELSE IF o.err # NilErr
              THEN DecodeOut(WrapWithCode(o.err), "", <<>>, FALSE,
                             WrapWithCode(o.err), o.R)
              ELSE IF R.contentType \in ProtoTypes
              THEN IF ~isProto THEN DecodeOut(invalid, "", <<>>, FALSE, e, o.R)
                   ELSE DecodeOut(codecErr, "proto", o.bytes, FALSE,
                                  IF codecErr # NilErr THEN codecErr ELSE e, o.R)
              ELSE LET jerr == IF o.bytes = <<>> THEN Err("codec") ELSE codecErr
                   IN  DecodeOut(jerr, "json", o.bytes, FALSE,
                                 IF jerr # NilErr THEN jerr ELSE e, o.R)
              : o \in BodyBytes(R, TRUE)}

\* A Decode that misses the check of r.Error.
Decode_NoErrorCheck(R, e, req, isProto, codecErr) ==
    DecodeBody(R, e, isProto, codecErr)

\* Response.Decode(v): the possible outcomes.
Decode(R, e, req, isProto, codecErr) ==
    IF e # NilErr THEN DecodeError(R, e, req)
    ELSE DecodeBody(R, e, isProto, codecErr)

\* The caller calls r.Decode(v).  Only the input the taken path reads is
\* varied: the request when the error is set, the target and the decoder's
\* verdict when it is not.
DecodeCall ==
    \E req \in IF error # NilErr THEN Requests ELSE {NoRequest} :
    \E isProto \in IF error # NilErr THEN {FALSE} ELSE BOOLEAN :
    \E codecErr \in IF error # NilErr THEN {NilErr} ELSE {NilErr, Err("codec")} :
    \E o \in Decode(Fields, error, req, isProto, codecErr) :
        /\ body' = o.R.body
        /\ error' = o.error
        /\ onlyWrites' = FALSE
        /\ noConsume' = FALSE
        /\ written' = <<>>
        /\ ret' = [Ret("Decode") EXCEPT !.err = o.err, !.dec = o.dec,
                                        !.bytes = o.bytes, !.panic = o.panic,
                                        !.swapped = o.R.swapped]
        /\ UNCHANGED <<resp, contentLength, contentType>>

\* ---------------------------------------------------------------- Encode
\* An outcome of Encode and of EncodeAsProtobuf: the error field and the
\* fields afterwards, the codec used ("" when the value is adopted), the bytes
\* it produced, and the failure the call ran into (nil when it had none).
EncodeOut(e1, R1, codec, b, failure) ==
    [error |-> e1, R |-> R1, codec |-> codec, bytes |-> b, err |-> failure]

\* An EncodeAsProtobuf that leaves the length to Write's accounting.
EncodeAsProtobuf_NoForce(R, e, marshalled) ==
    IF marshalled.err # NilErr
    THEN {EncodeOut(Wrap(marshalled.err), R, "proto", <<>>, marshalled.err)}
    ELSE {EncodeOut(Wrap(o.err),
                    [o.R EXCEPT !.contentType = "application/protobuf"],
                    "proto", marshalled.bytes, o.err)
          : o \in Write(R, marshalled.bytes)}

\* Response.EncodeAsProtobuf(m): marshalled is what proto.Marshal(m) returns,
\* the bytes and the error.
EncodeAsProtobuf(R, e, marshalled) ==
    IF marshalled.err # NilErr
    THEN {EncodeOut(Wrap(marshalled.err), R, "proto", <<>>, marshalled.err)}
    ELSE {EncodeOut(Wrap(o.err),
                    [o.R EXCEPT !.contentType = "application/protobuf",
                                !.contentLength = o.n],
                    "proto", marshalled.bytes, o.err)
          : o \in Write(R, marshalled.bytes)}

\* The values passed to Encode: whether v is a proto.Message, whether it is a
\* json.Marshaler, and whether it is an io.ReadCloser, an io.Reader or neither.
Values == [proto : BOOLEAN, marshaler : BOOLEAN,
           stream : {"none", "reader", "readcloser"}]

\* The streams a caller can hand over: an io.ReadCloser, writable or not,
\* holding some bytes, healthy or failing.
StreamData == {<<>>, <<1, 0>>}

ForeignStreams ==
    [kind : {"rc", "rwc"}, data : StreamData, closes : {0}, bad : BOOLEAN]

\* ioutil.NopCloser(v) around a plain reader
NopCloser(s) == [s EXCEPT !.kind = "nop"]

\* What a codec returns: an error and no bytes, or the encoding.
Marshalled == {[bytes |-> <<>>, err |-> Err("codec")]}
              \cup [bytes : {c \in Chunks : c = <<>> \/ c[1] = 0}, err : {NilErr}]

\* An adoption that leaves the content length as it was.
Adopt_KeepsLength(R, e, s) ==
    {EncodeOut(e, [R EXCEPT !.body = s, !.swapped = TRUE, !.dropped = R.body],
               "", <<>>, NilErr)}

\* r.Body = v; r.ContentLength = -1: the stream becomes the body, unread.
Adopt(R, e, s) ==
    {EncodeOut(e, [R EXCEPT !.body = s, !.contentLength = -1,
                            !.swapped = TRUE, !.dropped = R.body],
               "", <<>>, NilErr)}

\* A negotiation that looks for a request and not at its Accept header.
AcceptsProtobuf_AnyRequest(req) == req.present

\* r.Request != nil && strings.Contains(r.Request.Header.Get("Accept"),
\* "application/protobuf")
AcceptsProtobuf(req) == req.present /\ req.accept

\* Response.Encode(v): st is v as a stream when it is one, jsonOut and
\* protoOut what the two codecs return for v.
Encode(R0, e, req, v, st, jsonOut, protoOut) ==
    LET R == EnsureResponse(R0)
    IN  IF ~(v.proto \/ v.marshaler) /\ v.stream = "readcloser" THEN Adopt(R, e, st)
        ELSE IF ~(v.proto \/ v.marshaler) /\ v.stream = "reader"
        THEN Adopt(R, e, NopCloser(st))
        ELSE IF v.proto /\ AcceptsProtobuf(req) THEN EncodeAsProtobuf(R, e, protoOut)
        ELSE IF jsonOut.err # NilErr
        THEN {EncodeOut(Wrap(jsonOut.err), R, "json", <<>>, jsonOut.err)}
        ELSE {IF o.err # NilErr
              THEN EncodeOut(Wrap(o.err), o.R, "json", jsonOut.bytes, o.err)
              ELSE EncodeOut(e, [o.R EXCEPT !.contentType = "application/json"],
                             "json", jsonOut.bytes, NilErr)
              : o \in Write(R, jsonOut.bytes)}

\* The requests Encode can tell apart: it reads only the Accept header.
EncodeRequests == {NoRequest} \cup {r \in Requests : r.present /\ r.ctx = "absent"}

\* The values the caller passes, one of each kind Encode tells apart: a plain
\* value, a marshaler, a message, a reader, a read-closer.
EncodeInputs ==
    {v \in Values : (v.proto \/ v.marshaler) => (v.stream = "none" /\ ~(v.proto /\ v.marshaler))}

\* Whether Encode adopts v as the body instead of encoding it.
Adopts(v) == ~(v.proto \/ v.marshaler) /\ v.stream # "none"

\* The state after an outcome o of Encode.
EncodeDone(o) ==
    /\ Len(o.R.body.data) <= MaxBody
    /\ resp' = o.R.resp
    /\ body' = o.R.body
    /\ contentLength' = o.R.contentLength
    /\ contentType' = o.R.contentType
    /\ error' = o.error
    /\ onlyWrites' = FALSE
    /\ noConsume' = noConsume
    /\ written' = <<>>
    /\ ret' = [Ret("Encode") EXCEPT !.bytes = o.bytes, !.swapped = o.R.swapped,
                                    !.err = o.err, !.dec = o.codec]

\* The caller calls r.Encode(v).  Only the input the taken path reads is
\* varied; json.Encoder ends every value with a newline, so its output is
\* never empty.
EncodeCall ==
    \E v \in EncodeInputs :
        LET none == [bytes |-> <<>>, err |-> NilErr]
        IN  IF Adopts(v)
            THEN \E st \in {f \in ForeignStreams : v.stream = "reader" => f.kind = "rc"} :
                 \E o \in Encode(Fields, error, NoRequest, v, st, none, none) :
                     EncodeDone(o)
            ELSE \E req \in IF v.proto THEN EncodeRequests ELSE {NoRequest} :
                 IF v.proto /\ req.present /\ req.accept
                 THEN \E protoOut \in Marshalled :
                      \E o \in Encode(Fields, error, req, v, NilBody, none, protoOut) :
                          EncodeDone(o)
                 ELSE \E jsonOut \in {m \in Marshalled : m.err = NilErr => m.bytes # <<>>} :
                      \E o \in Encode(Fields, error, req, v, NilBody, jsonOut, none) :
                          EncodeDone(o)

\* The caller calls r.EncodeAsProtobuf(m).
EncodeAsProtobufCall ==
    \E protoOut \in Marshalled :
    \E o \in EncodeAsProtobuf(Fields, error, protoOut) :
        /\ Len(o.R.body.data) <= MaxBody
        /\ resp' = o.R.resp
        /\ body' = o.R.body
        /\ contentLength' = o.R.contentLength
        /\ contentType' = o.R.contentType
        /\ error' = o.error
        /\ onlyWrites' = FALSE
        /\ noConsume' = noConsume
        /\ written' = <<>>
        /\ ret' = [Ret("EncodeAsProtobuf") EXCEPT !.bytes = o.bytes,
                                                  !.swapped = o.R.swapped,
                                                  !.err = o.err, !.dec = o.codec]

\* ---------------------------------------------------------------- the caller
\* The caller assigns r.Body: a stream of its own, or nil.
SetBody ==
    /\ resp
    /\ body' \in ForeignStreams \cup {NilBody}
    /\ onlyWrites' = FALSE
    /\ noConsume' = FALSE
    /\ written' = <<>>
    /\ ret' = [Ret("SetBody") EXCEPT !.swapped = TRUE]
    /\ UNCHANGED <<resp, contentLength, contentType, error>>

\* The caller assigns r.Error.
SetError ==
    /\ error' = Err("caller")
    /\ onlyWrites' = FALSE
    /\ noConsume' = FALSE
    /\ written' = <<>>
    /\ ret' = Ret("SetError")
    /\ UNCHANGED <<resp, body, contentLength, contentType>>

\* The caller (or the transport) sets the Content-Type header.
SetContentType ==
    /\ resp
    /\ contentType' \in ContentTypes
    /\ onlyWrites' = FALSE
    /\ noConsume' = FALSE
    /\ written' = <<>>
    /\ ret' = Ret("SetContentType")
    /\ UNCHANGED <<resp, body, contentLength, error>>

Next ==
    \/ WriteCall
    \/ BodyBytesCall
    \/ DecodeCall
    \/ EncodeCall
    \/ EncodeAsProtobufCall
    \/ SetBody
    \/ SetError
    \/ SetContentType

Spec == Init /\ [][Next]_vars

\* ---------------------------------------------------------------- properties

\* C1: once the content length is -1, a Write leaves it at -1, whatever the
\* size of the write.
C1_WriteKeepsUnknown ==
    [][(ret'.op = "Write" /\ contentLength = -1) => contentLength' = -1]_vars

\* A Write of some bytes has acted on a response that earlier Writes had
\* already taken to the threshold.
C1_Witness ==
    /\ ret.op = "Write" /\ ret.n > 0 /\ ret.err = NilErr
    /\ onlyWrites /\ Len(written) - ret.n >= chunkThreshold
    /\ contentLength = -1

\* C2: over all the operations, a content length of -1 is never followed by
\* a known one.
C2_NeverKnownAgain ==
    [][contentLength = -1 => contentLength' = -1]_vars

C4_WritesThenConsume ==
    [][(ret'.op = "BodyBytes(true)" /\ resp /\ onlyWrites
        /\ Len(written) < chunkThreshold) =>
        /\ ~ret'.panic
        /\ ret'.err = NilErr
        /\ ret'.bytes = written
        /\ contentLength' = Len(written)]_vars

\* BodyBytes(true) has returned the bytes of two Writes of one byte each
\* (no single Write passes the same byte twice in a row).
C4_Witness ==
    /\ ret.op = "BodyBytes(true)" /\ ~onlyWrites
    /\ written = <<0, 0>> /\ ret.bytes = written
    /\ contentLength = 2

\* C5: a Write on a foreign body that is not a writer, whose drain succeeds,
\* leaves a buffer holding the foreign bytes followed by the new ones, and
\* returns the count of the new ones.
C5_WriteKeepsForeignBytes ==
    \A b \in Chunks : \A o \in Write(Fields, b) :
        (resp /\ body.kind \in {"nop", "rc"} /\ o.err = NilErr) =>
            /\ o.R.body.kind = "buf"
            /\ o.R.body.data = body.data \o b
            /\ o.n = Len(b)

\* A Write has replaced a body that held bytes by a buffer holding more than
\* the bytes written.
C5_Witness ==
    /\ ret.op = "Write" /\ ret.swapped /\ ret.err = NilErr /\ ret.n > 0
    /\ body.kind = "buf" /\ Len(body.data) > ret.n

\* C6: a BodyBytes(false) right after a BodyBytes(false) returns the same
\* bytes.
C6_PeekRepeatable ==
    [][(ret.op = "BodyBytes(false)" /\ ~ret.panic /\ ret'.op = "BodyBytes(false)") =>
        (~ret'.panic /\ ret'.bytes = ret.bytes)]_vars

\* A BodyBytes(false) has converted a foreign stream and returned its bytes.
C6_Witness ==
    /\ ret.op = "BodyBytes(false)" /\ ret.swapped /\ ~ret.panic
    /\ ret.bytes # <<>> /\ body.kind = "buf" /\ body.data = ret.bytes

\* C7: a BodyBytes(true) right after a BodyBytes(true) that returned the
\* whole body fails or returns no bytes.
C7_ConsumeOnce ==
    [][(ret.op = "BodyBytes(true)" /\ ~ret.panic /\ ret.err = NilErr
        /\ ret'.op = "BodyBytes(true)") =>
        (ret'.err # NilErr \/ ret'.bytes = <<>>)]_vars

\* A BodyBytes(true) has returned a whole body of some bytes.
C7_Witness ==
    /\ ret.op = "BodyBytes(true)" /\ ~ret.panic /\ ret.err = NilErr
    /\ ret.bytes # <<>> /\ body.data = <<>>

\* C8: a Decode called with the error set leaves the body (the stream, its
\* bytes, its closes), the content length, the headers and the error alone.
C8_DecodeErrorFrame ==
    [][(ret'.op = "Decode" /\ error # NilErr) =>
        /\ body' = body /\ ~ret'.swapped
        /\ resp' = resp
        /\ contentLength' = contentLength
        /\ contentType' = contentType
        /\ error' = error]_vars

\* A Decode has returned on a response whose error is set and whose body is
\* an open foreign stream that still holds its bytes.
C8_Witness ==
    /\ ret.op = "Decode" /\ error # NilErr /\ ret.err # NilErr
    /\ resp /\ body.kind = "rc" /\ body.closes = 0 /\ body.data # <<>>

\* C9: with the error set, Decode returns a new internal error caused by it
\* and tagged "downstream" when the request's context holds a non-empty
\* string under the policy key, and the error itself in every other case.
C9_DecodeErrorPolicy ==
    error # NilErr =>
        \A req \in Requests, isProto \in BOOLEAN, codecErr \in {NilErr, Err("codec")} :
        \A o \in Decode(Fields, error, req, isProto, codecErr) :
            o.err = IF req.present /\ req.ctx = "nonempty"
                    THEN [kind |-> "internal_service.downstream", cause |-> error.kind]
                    ELSE error

\* A Decode has returned the rewrapped error.
C9_Witness ==
    /\ ret.op = "Decode" /\ error # NilErr
    /\ ret.err = [kind |-> "internal_service.downstream", cause |-> error.kind]

\* C10: an error that Decode returns after it went past the error check is
\* the error field afterwards.
C10_DecodeStoresFailure ==
    [][(ret'.op = "Decode" /\ error = NilErr /\ ~ret'.panic /\ ret'.err # NilErr) =>
        error' = ret'.err]_vars

\* C11: an Encode that ran into a failure (of a codec or of the Write under
\* it) leaves the Content-Type header as it was before the call.
C11_EncodeFailureKeepsHeader ==
    [][(ret'.op = "Encode" /\ ret'.err # NilErr) => contentType' = contentType]_vars

\* C12: Encode of a plain stream (a reader or a read-closer that is neither a
\* message nor a marshaler) makes the stream the body without reading it,
\* sets the content length to -1, leaves the Content-Type header and the
\* error field alone, and a full read of the body that follows returns the
\* bytes of the stream, all of them whenever the stream's reads do not fail.
C12_EncodeAdoptsStream ==
    \A v \in {w \in Values : Adopts(w)} : \A st \in ForeignStreams :
    \A o \in Encode(Fields, error, NoRequest, v, st,
                    [bytes |-> <<>>, err |-> NilErr], [bytes |-> <<>>, err |-> NilErr]) :
        /\ o.R.body = IF v.stream = "readcloser" THEN st ELSE NopCloser(st)
        /\ o.R.contentLength = -1
        /\ o.R.contentType = contentType
        /\ o.error = error /\ o.err = NilErr
        /\ \A d \in BodyBytes(o.R, TRUE) :
               /\ d.err = NilErr => d.bytes = st.data
               /\ ~(o.R.body.kind \in {"nop", "rc"} /\ o.R.body.bad)
                      => (d.err = NilErr /\ ~d.panic)

\* Encode has adopted a reader that holds bytes, on a response whose length
\* was known before.
C12_Witness ==
    /\ ret.op = "Encode" /\ ret.dec = "" /\ ret.swapped
    /\ body.kind = "nop" /\ body.data = <<1, 0>> /\ body.closes = 0
    /\ contentLength = -1 /\ contentType = "" /\ error = NilErr

\* C13: after an EncodeAsProtobuf that had no failure, Content-Type is
\* application/protobuf and the content length is the number of marshalled
\* bytes written, whatever Content-Type and content length were before
\* (-1 and known lengths alike).
C13_ProtobufSetsTypeAndLength ==
    \A protoOut \in Marshalled : \A o \in EncodeAsProtobuf(Fields, error, protoOut) :
        o.err = NilErr => /\ o.R.contentType = "application/protobuf"
                          /\ o.R.contentLength = Len(protoOut.bytes)

\* EncodeAsProtobuf has written a message to a body that already held
\* bytes, taking it to the threshold.
C13_Witness ==
    /\ ret.op = "EncodeAsProtobuf" /\ ret.err = NilErr /\ ret.bytes # <<>>
    /\ body.kind = "buf" /\ Len(body.data) >= chunkThreshold
    /\ contentType = "application/protobuf" /\ contentLength = Len(ret.bytes)

\* C14: Encode and then Decode on a response that holds nothing yet go
\* through matching codecs: the decoder is handed the bytes the encoder
\* produced, it is the binary decoder exactly when Encode used the binary
\* encoder, and a binary body decoded into a target that is not a message
\* fails with the type mismatch and reaches no decoder.  (The text codec's
\* output is of the longest size, the binary codec's one byte shorter, so the
\* two are told apart.)
C14_EncodeDecodeRoundTrip ==
    (error = NilErr /\ (~resp \/ body = NewBuf)) =>
        \A v \in {w \in Values : ~Adopts(w)} : \A req \in EncodeRequests :
        \A jsonOut \in {m \in Marshalled : m.err = NilErr /\ Len(m.bytes) = MaxWrite} :
        LET protoOut == [jsonOut EXCEPT !.bytes = Tail(@)] IN
        \A o \in Encode(Fields, error, req, v, NilBody, jsonOut, protoOut) :
        \A isProto \in BOOLEAN : \A codecErr \in {NilErr, Err("codec")} :
        \A d \in Decode(o.R, o.error, req, isProto, codecErr) :
            /\ o.err = NilErr /\ ~d.panic
            /\ o.codec = "json" =>
                   d.dec = "json" /\ d.bytes = jsonOut.bytes /\ d.err = codecErr
            /\ (o.codec = "proto" /\ isProto) =>
                   d.dec = "proto" /\ d.bytes = protoOut.bytes /\ d.err = codecErr
            /\ (o.codec = "proto" /\ ~isProto) =>
                   d.dec = "" /\ d.err = Err("internal_service.invalid_type")

\* Decode has handed the binary decoder the bytes of a binary body whose
\* length EncodeAsProtobuf had set.
C14_Witness ==
    /\ ret.op = "Decode" /\ ret.dec = "proto" /\ ret.err = NilErr
    /\ ret.bytes = <<0, 1>> /\ contentLength = 2
    /\ contentType = "application/protobuf" /\ error = NilErr

\* C15 as claimed: the first operation that must read a foreign body (a Write
\* on a body that is no writer, a BodyBytes, a Decode with no error set)
\* makes the body a buffer in place of the stream.
C15_FirstReadConverts ==
    [][(/\ resp /\ IsForeign(body) /\ body.closes = 0
        /\ \/ ret'.op \in {"BodyBytes(false)", "BodyBytes(true)"}
           \/ ret'.op = "Decode" /\ error = NilErr
           \/ ret'.op = "Write" /\ ~IsWriter(body))
       => (body'.kind = "buf" /\ ret'.swapped)]_vars

\* C15, amended: on a foreign body, BodyBytes(false) and a Write to a body
\* that is no writer whose drain succeeds put a buffer in place of the stream
\* and close the stream; BodyBytes(true) and a Decode with no error set read
\* and close the stream in place, and it stays the body.  Once the body is a
\* buffer, Write, BodyBytes and Decode leave that buffer in place.
C15_ConversionOfForeignBody ==
    /\ (resp /\ IsForeign(body)) =>
        /\ \A o \in BodyBytes(Fields, FALSE) :
               /\ ~o.panic /\ o.R.swapped
               /\ o.R.body.kind = "buf" /\ o.R.body.data = o.bytes
               /\ o.R.dropped.kind = body.kind
               /\ o.R.dropped.closes = Min(body.closes + 1, 2)
        /\ \A b \in Chunks : \A o \in Write(Fields, b) :
               (~IsWriter(body) /\ o.err = NilErr) =>
                   /\ o.R.swapped /\ o.R.body.kind = "buf"
                   /\ o.R.dropped.kind = body.kind
                   /\ o.R.dropped.closes = Min(body.closes + 1, 2)
        /\ \A o \in BodyBytes(Fields, TRUE) :
               /\ ~o.panic /\ ~o.R.swapped
               /\ o.R.body.kind = body.kind
               /\ o.R.body.closes = Min(body.closes + 1, 2)
        /\ error = NilErr =>
               \A isProto \in BOOLEAN : \A codecErr \in {NilErr, Err("codec")} :
               \A o \in Decode(Fields, error, NoRequest, isProto, codecErr) :
                   /\ ~o.panic /\ ~o.R.swapped
                   /\ o.R.body.kind = body.kind
                   /\ o.R.body.closes = Min(body.closes + 1, 2)
    /\ (resp /\ body.kind = "buf") =>
        /\ \A consume \in BOOLEAN : \A o \in BodyBytes(Fields, consume) :
               ~o.R.swapped /\ o.R.body.kind = "buf"
        /\ \A b \in Chunks : \A o \in Write(Fields, b) :
               ~o.R.swapped /\ o.R.body.kind = "buf"
        /\ \A isProto \in BOOLEAN : \A codecErr \in {NilErr, Err("codec")} :
           \A o \in Decode(Fields, error, NoRequest, isProto, codecErr) :
               ~o.R.swapped /\ o.R.body.kind = "buf"

\* Decode has read a foreign stream to its end and closed it, and the
\* stream is still the body.
C15_Witness ==
    /\ ret.op = "Decode" /\ ret.dec = "json" /\ ret.bytes = <<1, 0>>
    /\ ~ret.swapped /\ body.kind = "rc" /\ body.closes = 1 /\ body.data = <<>>

\* C16: once the Response has closed a foreign stream that is its body, no
\* Write, BodyBytes or Decode closes it again or reads from it: the stream
\* stays the body as it is.
C16_ClosedOnceNeverTouched ==
    [][(/\ IsForeign(body) /\ body.closes > 0
        /\ ret'.op \in {"Write", "BodyBytes(false)", "BodyBytes(true)", "Decode"})
       => (body' = body /\ ~ret'.swapped)]_vars

\* C17: when Write must drain a foreign body that is no writer and the drain
\* fails, Write returns 0 and the drain's error, the content length is the
\* one before the call, and the body is still the foreign stream: not
\* closed by the call, holding what the failed drain left of its bytes and
\* none of the bytes passed to Write.
C17_FailedDrainLeavesStream ==
    (resp /\ IsForeign(body) /\ ~IsWriter(body)) =>
        \A b \in Chunks : \A o \in Write(Fields, b) :
            o.err # NilErr =>
                /\ o.n = 0 /\ o.err = Err("io")
                /\ o.R.contentLength = contentLength
                /\ ~o.R.swapped /\ o.R.body.kind = body.kind
                /\ o.R.body.closes = body.closes
                /\ \E k \in 0..Len(body.data) : o.R.body.data = Suffix(body.data, k)

\* A Write has failed while draining a read-closer, which is still the body,
\* open and one byte shorter.
C17_Witness ==
    /\ ret.op = "Write" /\ ret.err = Err("io") /\ ret.n = 0 /\ ~ret.swapped
    /\ body.kind = "rc" /\ body.closes = 0 /\ body.data = <<0>>

\* C18: for a value that Encode does not adopt as a stream, Encode takes the
\* binary codec exactly when the response has a request whose Accept header
\* contains application/protobuf and the value is a message; otherwise it
\* takes the structured-text codec and, with no failure, sets Content-Type to
\* application/json.  (out is what either codec returns for the value: a
\* failure or one byte.)
C18_EncodeFormatChoice ==
    \A v \in {w \in Values : ~Adopts(w)} : \A req \in EncodeRequests :
    \A out \in {m \in Marshalled : m.err = NilErr => Len(m.bytes) = 1} :
    \A o \in Encode(Fields, error, req, v, NilBody, out, out) :
        /\ o.codec = IF req.present /\ req.accept /\ v.proto THEN "proto" ELSE "json"
        /\ (o.codec = "json" /\ o.err = NilErr) => o.R.contentType = "application/json"

\* Encode has written a value with the structured-text codec to an empty
\* body.
C18_Witness ==
    /\ ret.op = "Encode" /\ ret.dec = "json" /\ ret.err = NilErr
    /\ contentType = "application/json" /\ contentLength = Len(ret.bytes)
    /\ body.kind = "buf" /\ body.data = ret.bytes /\ ret.bytes # <<>>

\* C19: while nothing but Write, Encode, EncodeAsProtobuf and
\* BodyBytes(false) has been called since construction, a known content
\* length is the number of bytes the body holds.
C19_KnownLengthIsBodyLength ==
    (noConsume /\ resp /\ contentLength >= 0) => contentLength = Len(body.data)

\* C20: no step takes the error field from set to unset.
C20_ErrorIsTerminal ==
    [][error # NilErr => error' # NilErr]_vars

====
